---- MODULE Spec2Model ----
(***************************************************************************)
(* stress-ng core NUMA helpers (stress-numa.c): Node Counter               *)
(* (stress_numa_count_mem_nodes), cached accessor (stress_numa_nodes),     *)
(* static policy binder (stress_set_mbind) and randomized per-page binder  *)
(* (stress_numa_randomize_pages).                                          *)
(*                                                                         *)
(* Strings are sequences of one-character strings.  C index k of a buffer  *)
(* is index k+1 of the sequence that models it.                            *)
(***************************************************************************)
EXTENDS Integers, Sequences, FiniteSets, TLC

VARIABLES
    status,      \* /proc/self/status as the kernel exposes it: [open, lines]
    pc,          \* position of the program
    max_node,    \* the caller's max_node variable (passed by pointer)
    count_ret,   \* value returned by the last stress_numa_count_mem_nodes
    count_calls, \* number of Node Counter invocations so far
    arg,         \* stress_set_mbind: the argument string
    strtok_pos,  \* stress_set_mbind: strtok's saved position in str, the copy of arg
    token,       \* stress_set_mbind: current token
    lo, hi, i,   \* stress_set_mbind: loop variables
    nodemask,    \* stress_set_mbind: set of bits set in the working mask
    nodemask_sz, \* stress_set_mbind: number of words of the working mask
    policy,      \* set_mempolicy calls issued so far (node set of each call)
    diag,        \* last diagnostic written to stderr ("" when none)
    result,      \* "none", "ret0" (returned 0) or "exit_failure" (_exit)
    nodes,       \* stress_numa_nodes: the static cached copy
    nodes_ret,   \* values returned by the calls of stress_numa_nodes so far
    tpc,         \* stress_numa_nodes called by threads: position of each thread
    tret,        \* stress_numa_nodes called by threads: value returned, -1 while running
    numa_mask,   \* stress_numa_randomize_pages: the stress_numa_mask_t
    ptr,         \* stress_numa_randomize_pages: page cursor (buffer offset)
    page_size,   \* stress_numa_randomize_pages: argument
    buffer_size, \* stress_numa_randomize_pages: argument
    entry_mask,  \* stress_numa_randomize_pages: mask bits held on entry
    mbinds,      \* the last mbind calls issued: [addr, len, mask, maxnode, ok]
    heap,        \* number of blocks allocated by stress_numa_mask_alloc and not freed
    released     \* number of blocks the last stress_numa_mask_free released

cvars == <<max_node, count_ret, count_calls>>
mvars == <<arg, strtok_pos, token, lo, hi, i, nodemask, nodemask_sz, policy, diag, result>>
nvars == <<nodes, nodes_ret, tpc, tret>>
rvars == <<numa_mask, ptr, page_size, buffer_size, entry_mask, mbinds, heap, released>>
vars == <<status, pc, cvars, mvars, nvars, rvars>>

----------------------------------------------------------------------------
(* Bounds *)

MaxBodyLen == 4      \* characters after the label in a Mems_allowed line
MaxGarbage == 1      \* largest value the caller's max_node holds before a call
NumThreads == 2      \* threads that call stress_numa_nodes concurrently

Threads == 1..NumThreads

----------------------------------------------------------------------------
(* C integer types *)

ULongModulus == 2^30            \* unsigned long wraps here (2^64 scaled to TLC's integers)
ULONG_MAX == ULongModulus - 1   \* (unsigned long)-1

ToULong(v) == v % ULongModulus

\* conversion of an unsigned long to int (as in "nodes = ...count_mem_nodes()")
ToInt(v) == IF v >= ULongModulus \div 2 THEN v - ULongModulus ELSE v

----------------------------------------------------------------------------
(* Characters *)

HexLower == <<"0","1","2","3","4","5","6","7","8","9","a","b","c","d","e","f">>
HexUpper == <<"A","B","C","D","E","F">>
DecDigits == <<"0","1","2","3","4","5","6","7","8","9">>

\* index of the first occurrence of c in seq, 0 when there is none
IndexOf(seq, c) ==
    IF \E k \in 1..Len(seq) : seq[k] = c
    THEN CHOOSE k \in 1..Len(seq) : seq[k] = c /\ \A j \in 1..(k - 1) : seq[j] # c
    ELSE 0

IsSpace(c) == c \in {" ", "\t", "\n"}
IsXDigit(c) == IndexOf(HexLower, c) > 0 \/ IndexOf(HexUpper, c) > 0
XDigitVal(c) == IF IndexOf(HexLower, c) > 0 THEN IndexOf(HexLower, c) - 1
                ELSE IndexOf(HexUpper, c) + 9
IsDigit(c) == IndexOf(DecDigits, c) > 0
DigitVal(c) == IndexOf(DecDigits, c) - 1

Label == <<"M","e","m","s","_","a","l","l","o","w","e","d",":">>
LabelLen == 13

----------------------------------------------------------------------------
(* stress_numa_count_mem_nodes *)

\* index of the first character at or after p that is not white space
RECURSIVE SkipSpace(_, _)
SkipSpace(buf, p) ==
    IF p <= Len(buf) /\ IsSpace(buf[p]) THEN SkipSpace(buf, p + 1) ELSE p

\* sscanf(ptr, "%1x", &val): -1 when no conversion is made, else val
Sscanf1x(buf, p) ==
    LET q == SkipSpace(buf, p) IN
    IF q <= Len(buf) /\ IsXDigit(buf[q]) THEN XDigitVal(buf[q]) ELSE -1

\* for (i = 0; i < 4; i++) { if (val & (1 << i)) n++; node_id++; ... }
RECURSIVE NibbleLoop(_, _, _, _, _)
NibbleLoop(k, val, n, node_id, mx) ==
    IF k >= 4 THEN [n |-> n, node_id |-> node_id, max_node |-> mx]
    ELSE NibbleLoop(k + 1, val,
                    IF (val \div (2^k)) % 2 = 1 THEN n + 1 ELSE n,
                    node_id + 1,
                    IF mx < node_id + 1 THEN node_id + 1 ELSE mx)

\* strncmp(buffer, "Mems_allowed:", 13) == 0
HasLabel(line) == Len(line) >= LabelLen /\ SubSeq(line, 1, LabelLen) = Label

\* the fgets loop: index of the first labelled line, 0 when there is none
FindLine(lines) ==
    IF \E k \in 1..Len(lines) : HasLabel(lines[k])
    THEN CHOOSE k \in 1..Len(lines) :
            HasLabel(lines[k]) /\ \A j \in 1..(k - 1) : ~HasLabel(lines[j])
    ELSE 0

\* mutant: the scan stops one character early and misses the most significant digit
ScanContinues_StopsEarly(buf, p) == buf[p] # " " /\ p > LabelLen + 2

\* while ((*ptr != ' ') && (ptr > str)), str being buffer + 13
ScanContinues(buf, p) == buf[p] # " " /\ p > LabelLen + 1

\* the backward scan, ptr being a sequence index (C index + 1)
RECURSIVE ScanLoop(_, _, _, _, _)
ScanLoop(buf, p, n, node_id, mx) ==
    IF ~ScanContinues(buf, p)
    THEN [ret |-> ToULong(n), max_node |-> mx]
    ELSE IF buf[p] = ","
    THEN ScanLoop(buf, p - 1, n, node_id, mx)
    ELSE LET val == Sscanf1x(buf, p) IN
         IF val = -1
         THEN [ret |-> ToULong(-1), max_node |-> mx]
         ELSE LET r == NibbleLoop(0, val, n, node_id, mx) IN
              \* node_id only grows; the guard makes each digit be evaluated
              \* before the scan moves to the next one
              CASE r.node_id > node_id ->
                   ScanLoop(buf, p - 1, r.n, r.node_id, r.max_node)

\* mutant: *max_node is not reset on entry
MaxNodeOnEntry_Kept(prev) == prev

\* value stored in *max_node on entry (line 42)
MaxNodeOnEntry(prev) == 0

stress_numa_count_mem_nodes(st, prev) ==
    LET m0 == MaxNodeOnEntry(prev) IN
    IF ~st.open THEN [ret |-> ToULong(-1), max_node |-> m0]
    ELSE LET k == FindLine(st.lines) IN
         IF k = 0 THEN [ret |-> ToULong(-1), max_node |-> m0]
         ELSE LET buf == st.lines[k] IN
              ScanLoop(buf, Len(buf) - 1, 0, 0, m0)

----------------------------------------------------------------------------
(* /proc/self/status contents *)

NL == "\n"
NameLine == <<"N","a","m","e",":","\t","s",NL>>
ListLine == <<"M","e","m","s","_","a","l","l","o","w","e","d","_","l","i","s","t",":","\t","0",NL>>

SeqsUpTo(S, n) == UNION {[1..k -> S] : k \in 0..n}

\* characters a line may hold after the label: separators, hex digits, a non-digit
BodyChars == {"\t", " ", ",", "0", "1", "3", "8", "f", "x"}

MemsLine(body) == Label \o body \o <<NL>>

NoOpen == [open |-> FALSE, lines |-> <<>>]
EmptyFile == [open |-> TRUE, lines |-> <<>>]
NoLabelFile == [open |-> TRUE, lines |-> <<NameLine, ListLine>>]
FileWith(body) == [open |-> TRUE, lines |-> <<NameLine, MemsLine(body), ListLine>>]

Files == {NoOpen, EmptyFile, NoLabelFile}
            \cup {FileWith(b) : b \in SeqsUpTo(BodyChars, MaxBodyLen)}

----------------------------------------------------------------------------
(* Initial values of the variables of the operations that are not running *)

InitCount == /\ max_node \in 0..MaxGarbage
             /\ count_ret = 0
             /\ count_calls = 0

InitMbind == /\ arg = <<>>
             /\ strtok_pos = 0
             /\ token = <<>>
             /\ lo = 0 /\ hi = 0 /\ i = 0
             /\ nodemask = {}
             /\ nodemask_sz = 0
             /\ policy = <<>>
             /\ diag = ""
             /\ result = "none"

InitNodes == /\ nodes = -1
             /\ nodes_ret = <<>>
             /\ tpc = [t \in Threads |-> "check"]
             /\ tret = [t \in Threads |-> -1]

InitRand == /\ numa_mask = [live |-> FALSE]
            /\ ptr = 0
            /\ page_size = 0
            /\ buffer_size = 0
            /\ entry_mask = {}
            /\ mbinds = <<>>
            /\ heap = 0
            /\ released = 0

----------------------------------------------------------------------------
(* The Node Counter applied to every bounded status file *)

CountCall ==
    /\ pc = "start"
    /\ LET r == stress_numa_count_mem_nodes(status, max_node) IN
          /\ max_node' = r.max_node
          /\ count_ret' = r.ret
    /\ count_calls' = count_calls + 1
    /\ pc' = "counted"
    /\ UNCHANGED <<status, mvars, nvars, rvars>>

InitC == /\ status \in Files
         /\ pc = "start"
         /\ InitCount /\ InitMbind /\ InitNodes /\ InitRand

NextC == CountCall

SpecCount == InitC /\ [][NextC]_vars

----------------------------------------------------------------------------
(* stress_set_mbind: string helpers *)

\* strtok(ptr, ","): the token that starts at or after pos, and the new saved position
RECURSIVE SkipDelim(_, _)
SkipDelim(s, p) ==
    IF p <= Len(s) /\ s[p] = "," THEN SkipDelim(s, p + 1) ELSE p

RECURSIVE TokenEnd(_, _)
TokenEnd(s, p) ==
    IF p <= Len(s) /\ s[p] # "," THEN TokenEnd(s, p + 1) ELSE p

Strtok(s, pos) ==
    LET b == SkipDelim(s, pos) IN
    IF b > Len(s) THEN [none |-> TRUE, tok |-> <<>>, pos |-> b]
    ELSE LET e == TokenEnd(s, b) IN
         [none |-> FALSE, tok |-> SubSeq(s, b, e - 1),
          pos |-> IF e > Len(s) THEN e ELSE e + 1]

\* the decimal digits read from position p on: value (saturating) and count
RECURSIVE ReadDigits(_, _, _, _)
ReadDigits(s, p, acc, cnt) ==
    IF p <= Len(s) /\ IsDigit(s[p])
    THEN LET v == acc * 10 + DigitVal(s[p]) IN
         ReadDigits(s, p + 1, IF v > ULONG_MAX THEN ULONG_MAX ELSE v, cnt + 1)
    ELSE [val |-> acc, cnt |-> cnt]

\* sscanf(str, "%lu", &val): -1 when no conversion is made, else val.
\* White space is skipped, one sign is accepted, a negative number wraps,
\* and whatever follows the digits is left unread.
SscanfLu(s) ==
    LET q == SkipSpace(s, 1)
        signed == q <= Len(s) /\ s[q] \in {"+", "-"}
        d == ReadDigits(s, IF signed THEN q + 1 ELSE q, 0, 0)
    IN  IF d.cnt = 0 THEN -1
        ELSE IF signed /\ s[q] = "-" THEN ToULong(0 - d.val)
        ELSE d.val

----------------------------------------------------------------------------
(* stress_set_mbind: checks *)

NUMA_LONG_BITS == 64    \* sizeof(unsigned long int) * 8

\* "stress_numa_count_mem_nodes(&max_node) < 1", an unsigned comparison
NoNodesFound(ret) == ret < 1

\* mutant: the number of words is not rounded up
NodemaskWords_Truncated(mx) == mx \div NUMA_LONG_BITS

\* number of words of the working mask
NodemaskWords(mx) == (mx + (NUMA_LONG_BITS - 1)) \div NUMA_LONG_BITS

\* mutant: a node equal to max_node passes
NodeInRange_Inclusive(mx, node) == ~(node > mx)

\* the test that stress_check_numa_range passes
NodeInRange(mx, node) == ~(node >= mx)

\* diagnostic of stress_check_numa_range, "" when the node is allowed
stress_check_numa_range(mx, node) ==
    IF NodeInRange(mx, node) THEN ""
    ELSE IF mx > 1 THEN "invalid range, allowed range: 0 to max_node-1"
    ELSE "invalid range, allowed range: 0"

\* mutant: a range with hi = lo passes
RangeRejected_Strict(l, h) == h < l

\* "if (hi <= lo)" of a range token
RangeRejected(l, h) == h <= l

\* the body of the token loop up to the range checks:
\* diag = "" and the bounds when the token is accepted, else the diagnostic
ParseToken(tok, mx) ==
    LET tmpptr == IndexOf(tok, "-")
        l == SscanfLu(tok)
        rest == SubSeq(tok, tmpptr + 1, Len(tok))
        h == IF tmpptr > 0 THEN SscanfLu(rest) ELSE l
        bad(d) == [diag |-> d, lo |-> 0, hi |-> 0]
    IN  IF l = -1 THEN bad("invalid number")
        ELSE IF tmpptr > 0 /\ rest = <<>> THEN bad("expecting number following '-'")
        ELSE IF tmpptr > 0 /\ h = -1 THEN bad("invalid number")
        ELSE IF tmpptr > 0 /\ RangeRejected(l, h)
             THEN bad("invalid range, end value must be larger than start value")
        ELSE IF stress_check_numa_range(mx, l) # "" THEN bad(stress_check_numa_range(mx, l))
        ELSE IF stress_check_numa_range(mx, h) # "" THEN bad(stress_check_numa_range(mx, h))
        ELSE [diag |-> "", lo |-> l, hi |-> h]

\* mutant: setting a bit that is already set clears it
SetBit_Toggle(mask, b) == IF b \in mask THEN mask \ {b} ELSE mask \cup {b}

\* mutant: the mask holds only the last bit set
SetBit_OnlyLast(mask, b) == {b}

\* STRESS_SETBIT(nodemask, i)
SetBit(mask, b) == mask \cup {b}

\* mutant: the result of set_mempolicy is ignored
MempolicyFatal_Ignored(ok) == FALSE

\* "shim_set_mempolicy(...) < 0" is fatal
MempolicyFatal(ok) == ~ok

----------------------------------------------------------------------------
(* stress_set_mbind: inputs *)

MaxTokens == 2      \* comma-separated pieces of an enumerated argument

Tokens == { <<"0">>, <<"3">>, <<"4">>, <<"7">>,
            <<"2","-","4">>, <<"0","-","2">>,
            <<"5","-","3">>, <<"3","-","3">>,
            <<"1","x">>, <<"2","-">>, <<"1","-","2","-","3">>, <<"x">>,
            <<"-","1">>, <<>> }

RECURSIVE Join(_)
Join(ts) == IF ts = <<>> THEN <<>>
            ELSE IF Len(ts) = 1 THEN ts[1]
            ELSE ts[1] \o <<",">> \o Join(Tail(ts))

\* the longer argument of the documented example, "0,2-4,7"
Str_0_2to4_7 == <<"0", ",", "2", "-", "4", ",", "7">>

Args == {Join(ts) : ts \in SeqsUpTo(Tokens, MaxTokens)} \cup {Str_0_2to4_7}

\* status files the binder is run against
MbindFiles == { NoOpen, NoLabelFile, FileWith(<<"\t", "0">>),
                FileWith(<<"\t", "f">>), FileWith(<<"\t", "0", "3">>),
                FileWith(<<"\t", "x", "1">>) }

----------------------------------------------------------------------------
(* stress_set_mbind: steps *)

Exit(d) == /\ diag' = d
           /\ result' = "exit_failure"
           /\ pc' = "done"

\* lines 241-257: discovery, allocation of the mask and of the copy of arg
MbindDiscover ==
    /\ pc = "mbind"
    /\ LET r == stress_numa_count_mem_nodes(status, max_node) IN
       /\ max_node' = r.max_node
       /\ count_ret' = r.ret
       /\ count_calls' = count_calls + 1
       /\ IF NoNodesFound(r.ret)
          THEN /\ diag' = "no NUMA nodes found, ignoring --mbind setting"
               /\ result' = "ret0"
               /\ pc' = "done"
               /\ UNCHANGED <<nodemask_sz, strtok_pos>>
          ELSE \E alloc \in {"ok", "no nodemask", "no copy"} :
               /\ nodemask_sz' = NodemaskWords(r.max_node)
               /\ IF alloc = "no nodemask"
                  THEN /\ Exit("cannot allocate NUMA nodemask, out of memory")
                       /\ UNCHANGED strtok_pos
                  ELSE IF alloc = "no copy"
                  THEN /\ Exit("out of memory duplicating argument")
                       /\ UNCHANGED strtok_pos
                  ELSE /\ strtok_pos' = 1
                       /\ pc' = "token"
                       /\ UNCHANGED <<diag, result>>
    /\ UNCHANGED <<status, arg, token, lo, hi, i, nodemask, policy, nvars, rvars>>

\* lines 259-283 and 296-298: next token, its checks, or the normal return
MbindToken ==
    /\ pc = "token"
    /\ LET t == Strtok(arg, strtok_pos) IN
       /\ strtok_pos' = t.pos
       /\ token' = t.tok
       /\ IF t.none
          THEN /\ result' = "ret0"
               /\ pc' = "done"
               /\ UNCHANGED <<lo, hi, i, diag>>
          ELSE LET c == ParseToken(t.tok, max_node) IN
               IF c.diag # ""
               THEN /\ Exit(c.diag)
                    /\ UNCHANGED <<lo, hi, i>>
               ELSE /\ lo' = c.lo
                    /\ hi' = c.hi
                    /\ i' = c.lo
                    /\ pc' = "bind"
                    /\ UNCHANGED <<diag, result>>
    /\ UNCHANGED <<status, cvars, arg, nodemask, nodemask_sz, policy, nvars, rvars>>

\* lines 285-293: one iteration of the bind loop
MbindBind ==
    /\ pc = "bind"
    /\ \E ok \in BOOLEAN :
       /\ nodemask' = SetBit(nodemask, i)
       /\ policy' = Append(policy, [nodes |-> nodemask', maxnode |-> max_node, ok |-> ok])
       /\ IF MempolicyFatal(ok)
          THEN /\ Exit("could not set NUMA memory policy")
               /\ UNCHANGED i
          ELSE /\ i' = i + 1
               /\ pc' = IF i + 1 <= hi THEN "bind" ELSE "token"
               /\ UNCHANGED <<diag, result>>
    /\ UNCHANGED <<status, cvars, arg, strtok_pos, token, lo, hi, nodemask_sz, nvars, rvars>>

InitM == /\ status \in MbindFiles
         /\ pc = "mbind"
         /\ max_node = 0 /\ count_ret = 0 /\ count_calls = 0
         /\ InitNodes /\ InitRand
         /\ arg \in Args
         /\ strtok_pos = 0
         /\ token = <<>>
         /\ lo = 0 /\ hi = 0 /\ i = 0
         /\ nodemask = {}
         /\ nodemask_sz = 0
         /\ policy = <<>>
         /\ diag = ""
         /\ result = "none"

NextM == MbindDiscover \/ MbindToken \/ MbindBind

SpecMbind == InitM /\ [][NextM]_vars

----------------------------------------------------------------------------
(* The --mbind grammar of the specification, used to state the properties: *)
(* a list of comma-separated tokens, each a decimal index or lo-hi.        *)

DecValue == [c \in {"0","1","2","3","4","5","6","7","8","9"} |->
                CASE c = "0" -> 0 [] c = "1" -> 1 [] c = "2" -> 2 [] c = "3" -> 3
                  [] c = "4" -> 4 [] c = "5" -> 5 [] c = "6" -> 6 [] c = "7" -> 7
                  [] c = "8" -> 8 [] c = "9" -> 9]

AllDecimal(t) == t # <<>> /\ \A k \in 1..Len(t) : t[k] \in DOMAIN DecValue

RECURSIVE Decimal(_)
Decimal(t) == IF t = <<>> THEN 0
              ELSE 10 * Decimal(SubSeq(t, 1, Len(t) - 1)) + DecValue[t[Len(t)]]

IsSingle(t) == AllDecimal(t)
IsRange(t) == \E k \in 1..Len(t) :
                 /\ t[k] = "-"
                 /\ AllDecimal(SubSeq(t, 1, k - 1))
                 /\ AllDecimal(SubSeq(t, k + 1, Len(t)))
WellFormed(t) == IsSingle(t) \/ IsRange(t)

Dash(t) == CHOOSE k \in 1..Len(t) : t[k] = "-"
LoOf(t) == IF IsSingle(t) THEN Decimal(t) ELSE Decimal(SubSeq(t, 1, Dash(t) - 1))
HiOf(t) == IF IsSingle(t) THEN Decimal(t) ELSE Decimal(SubSeq(t, Dash(t) + 1, Len(t)))

\* the pieces of s between commas, empty pieces dropped
RECURSIVE Pieces(_)
Pieces(s) ==
    IF s = <<>> THEN <<>>
    ELSE IF s[Len(s)] = "," THEN Pieces(SubSeq(s, 1, Len(s) - 1))
    ELSE LET cs == {k \in 1..Len(s) : s[k] = ","}
             c == IF cs = {} THEN 0 ELSE CHOOSE k \in cs : \A j \in cs : j <= k
         IN  Append(Pieces(SubSeq(s, 1, c)), SubSeq(s, c + 1, Len(s)))

ValidToken(t, mx) == /\ WellFormed(t)
                     /\ IsRange(t) => LoOf(t) < HiOf(t)
                     /\ HiOf(t) < mx
                     /\ LoOf(t) < mx
ValidTokens(ts, mx) == \A k \in 1..Len(ts) : ValidToken(ts[k], mx)

\* node indices of valid tokens, in traversal order
RECURSIVE Traversal(_)
Traversal(ts) ==
    IF ts = <<>> THEN <<>>
    ELSE LET t == ts[Len(ts)] IN
         Traversal(SubSeq(ts, 1, Len(ts) - 1))
            \o [k \in 1..(HiOf(t) - LoOf(t) + 1) |-> LoOf(t) + k - 1]

FirstK(idx, k) == {idx[j] : j \in 1..k}

\* the calls issued so far are the first calls of the cumulative traversal idx
IssuedPrefixOf(idx) ==
    /\ Len(policy) <= Len(idx)
    /\ \A k \in 1..Len(policy) :
          policy[k].nodes = FirstK(idx, k) /\ policy[k].maxnode = max_node

Discovered == pc # "mbind" /\ count_ret \in 1..max_node

OomDiags == {"cannot allocate NUMA nodemask, out of memory",
             "out of memory duplicating argument"}
RangeDiags == {"invalid range, allowed range: 0 to max_node-1",
               "invalid range, allowed range: 0"}
EndDiag == "invalid range, end value must be larger than start value"
SyntaxDiags == {"invalid number", "expecting number following '-'"}
PolicyDiag == "could not set NUMA memory policy"
WarnDiag == "no NUMA nodes found, ignoring --mbind setting"

----------------------------------------------------------------------------
(* C1: with max_node discovered and a valid argument, the calls issued are *)
(* one per node index, token by token from left to right and ascending     *)
(* inside a range; the k-th call passes the set of the first k indices;    *)
(* a normal return has issued all of them, and only a failed call or a     *)
(* failed allocation ends the run early.                                   *)
C1_CumulativeTraversal ==
    (Discovered /\ ValidTokens(Pieces(arg), max_node)) =>
        LET idx == Traversal(Pieces(arg)) IN
        /\ IssuedPrefixOf(idx)
        /\ result = "ret0" => Len(policy) = Len(idx)
        /\ result = "exit_failure" =>
              \/ diag \in OomDiags /\ policy = <<>>
              \/ diag = PolicyDiag /\ policy # <<>> /\ ~policy[Len(policy)].ok

C1_Witness ==
    /\ arg = Str_0_2to4_7
    /\ max_node = 8
    /\ result = "ret0"
    /\ [k \in 1..Len(policy) |-> policy[k].nodes]
          = <<{0}, {0,2}, {0,2,3}, {0,2,3,4}, {0,2,3,4,7}>>

----------------------------------------------------------------------------
(* C3 (as claimed): when no NUMA nodes are discoverable (the status file   *)
(* cannot be opened, has no Mems_allowed line, or permits no node),        *)
(* stress_set_mbind warns, returns 0, issues no call and does not exit     *)
(* (runs that end in a failed allocation are left aside).                  *)
Undiscoverable == { NoOpen, NoLabelFile, FileWith(<<"\t", "0">>) }

C3_SoftDegradation ==
    (pc = "done" /\ status \in Undiscoverable /\ diag \notin OomDiags) =>
        /\ result = "ret0"
        /\ diag = WarnDiag
        /\ policy = <<>>

----------------------------------------------------------------------------
(* C4: a token is accepted only if lo < max_node and hi < max_node; a      *)
(* well-formed token with an index >= max_node ends the process with the   *)
(* range diagnostic, index max_node - 1 is not rejected, every index       *)
(* passed to set_mempolicy is < max_node, and the step that checks a token *)
(* issues no call.                                                         *)
TokenOutOfRange ==
    /\ WellFormed(token)
    /\ IsRange(token) => LoOf(token) < HiOf(token)
    /\ LoOf(token) >= max_node \/ HiOf(token) >= max_node

C4_State ==
    /\ pc = "bind" => (lo < max_node /\ hi < max_node)
    /\ \A k \in 1..Len(policy) : \A n \in policy[k].nodes : n < max_node
    /\ (pc # "mbind" /\ TokenOutOfRange) => (result = "exit_failure" /\ diag \in RangeDiags)
    /\ (pc # "mbind" /\ IsSingle(token) /\ Decimal(token) = max_node - 1)
          => (diag \notin RangeDiags /\ (pc = "done" => diag = PolicyDiag))

C4_RangeChecked == [](C4_State) /\ [][pc = "token" => policy' = policy]_vars

\* "3,4" with max_node = 4: node 3 was bound, node 4 is refused
C4_Witness ==
    /\ max_node = 4
    /\ arg = <<"3", ",", "4">>
    /\ [k \in 1..Len(policy) |-> policy[k].nodes] = <<{3}>>
    /\ token = <<"4">>
    /\ result = "exit_failure"
    /\ diag \in RangeDiags

----------------------------------------------------------------------------
(* C5: a range token lo-hi with hi <= lo ends the process with the "end    *)
(* value must be larger than start value" diagnostic, also when lo or hi   *)
(* is out of range, and the step that rejects it issues no call.           *)
C5_State ==
    (pc # "mbind" /\ IsRange(token) /\ HiOf(token) <= LoOf(token)) =>
        (result = "exit_failure" /\ diag = EndDiag /\ pc = "done")

C5_EndNotLarger == [](C5_State) /\ [][diag' = EndDiag => policy' = policy]_vars

C5_Witness ==
    /\ token = <<"5","-","3">> /\ max_node = 4 /\ diag = EndDiag
    /\ result = "exit_failure"

----------------------------------------------------------------------------
(* C6 (as claimed): a token that is not wholly a decimal index or a lo-hi  *)
(* pair of decimal indices ends the process with failure, and no call is   *)
(* issued for it.                                                          *)
C6_MalformedRejected ==
    (pc # "mbind" /\ token # <<>> /\ ~WellFormed(token)) =>
        (result = "exit_failure" /\ pc = "done")

----------------------------------------------------------------------------
(* C7: the binder stops at the first fatal condition.  A failed call is    *)
(* the last call and ends the process; a rejected token ends the process   *)
(* with exactly the calls of the tokens before it issued (earlier bindings *)
(* stay applied); after the exit no call is issued; every step issues at   *)
(* most one call.                                                          *)
TokenDiags == RangeDiags \cup SyntaxDiags \cup {EndDiag}

\* the tokens strtok has handed out so far
Consumed == Pieces(SubSeq(arg, 1, strtok_pos - 1))
Earlier == SubSeq(Consumed, 1, Len(Consumed) - 1)

C7_State ==
    /\ \A k \in 1..Len(policy) : ~policy[k].ok => (k = Len(policy) /\ result = "exit_failure")
    /\ (policy # <<>> /\ ~policy[Len(policy)].ok) => (diag = PolicyDiag /\ pc = "done")
    /\ (result = "exit_failure" /\ diag \in TokenDiags /\ ValidTokens(Earlier, max_node)) =>
          /\ Consumed # <<>> /\ token = Consumed[Len(Consumed)]
          /\ ~ValidToken(token, max_node)
          /\ Len(policy) = Len(Traversal(Earlier))
          /\ IssuedPrefixOf(Traversal(Earlier))
    /\ result = "exit_failure" => pc = "done"

----------------------------------------------------------------------------
(* stress_numa_nodes, called repeatedly by a single thread *)

MaxNodesBody == 2     \* characters after the label in the status files used here
MaxNodesCalls == 3    \* calls of stress_numa_nodes in one run

NodesChars == {"\t", "0", "3", "f", "x"}

NodesFiles == {NoOpen, EmptyFile, NoLabelFile}
                 \cup {FileWith(b) : b \in SeqsUpTo(NodesChars, MaxNodesBody)}

\* "if (nodes == -1)": the cache is still empty
NodesUncached(n) == n = -1

\* mutant: a count of 0 is not clamped
NodesClamp_Negative(n) == IF n < 0 THEN 1 ELSE n

\* "if (nodes < 1) nodes = 1;"
NodesClamp(n) == IF n < 1 THEN 1 ELSE n

NodesCall ==
    /\ pc = "nodes"
    /\ Len(nodes_ret) < MaxNodesCalls
    /\ IF NodesUncached(nodes)
       THEN LET r == stress_numa_count_mem_nodes(status, 0) IN
            /\ nodes' = NodesClamp(ToInt(r.ret))
            /\ max_node' = r.max_node
            /\ count_ret' = r.ret
            /\ count_calls' = count_calls + 1
       ELSE UNCHANGED <<nodes, cvars>>
    /\ nodes_ret' = Append(nodes_ret, ToULong(nodes'))
    /\ UNCHANGED <<status, pc, mvars, rvars, tpc, tret>>

\* the kernel changes the nodes the process is allowed to use
StatusChange ==
    /\ pc = "nodes"
    /\ status' \in NodesFiles \ {status}
    /\ UNCHANGED <<pc, cvars, mvars, nvars, rvars>>

InitN == /\ status \in NodesFiles
         /\ pc = "nodes"
         /\ max_node = 0 /\ count_ret = 0 /\ count_calls = 0
         /\ InitMbind /\ InitNodes /\ InitRand

NextN == NodesCall \/ StatusChange

SpecNodes == InitN /\ [][NextN]_vars

----------------------------------------------------------------------------
(* stress_numa_nodes called by several threads before the cache is filled. *)
(* Each read and each write of the static "nodes" is one step.             *)

\* line 202: "if (nodes == -1)"
NodesCheck(t) ==
    /\ pc = "nodes_mt"
    /\ tpc[t] = "check"
    /\ tpc' = [tpc EXCEPT ![t] = IF NodesUncached(nodes) THEN "store" ELSE "ret"]
    /\ UNCHANGED <<status, pc, cvars, mvars, rvars, nodes, nodes_ret, tret>>

\* line 203: "nodes = stress_numa_count_mem_nodes(&max_node)"
NodesStore(t) ==
    /\ pc = "nodes_mt"
    /\ tpc[t] = "store"
    /\ LET r == stress_numa_count_mem_nodes(status, 0) IN
          /\ nodes' = ToInt(r.ret)
          /\ max_node' = r.max_node
          /\ count_ret' = r.ret
          /\ count_calls' = count_calls + 1
    /\ tpc' = [tpc EXCEPT ![t] = "clamp"]
    /\ UNCHANGED <<status, pc, mvars, rvars, nodes_ret, tret>>

\* line 204: "if (nodes < 1)"
NodesTest(t) ==
    /\ pc = "nodes_mt"
    /\ tpc[t] = "clamp"
    /\ tpc' = [tpc EXCEPT ![t] = IF NodesClamp(nodes) # nodes THEN "write" ELSE "ret"]
    /\ UNCHANGED <<status, pc, cvars, mvars, rvars, nodes, nodes_ret, tret>>

\* line 205: "nodes = 1"
NodesWrite(t) ==
    /\ pc = "nodes_mt"
    /\ tpc[t] = "write"
    /\ nodes' = 1
    /\ tpc' = [tpc EXCEPT ![t] = "ret"]
    /\ UNCHANGED <<status, pc, cvars, mvars, rvars, nodes_ret, tret>>

\* line 207: "return nodes"
NodesReturn(t) ==
    /\ pc = "nodes_mt"
    /\ tpc[t] = "ret"
    /\ tret' = [tret EXCEPT ![t] = ToULong(nodes)]
    /\ tpc' = [tpc EXCEPT ![t] = "done"]
    /\ UNCHANGED <<status, pc, cvars, mvars, rvars, nodes, nodes_ret>>

InitT == /\ status \in NodesFiles
         /\ pc = "nodes_mt"
         /\ max_node = 0 /\ count_ret = 0 /\ count_calls = 0
         /\ InitMbind /\ InitNodes /\ InitRand

NextT == \E t \in Threads :
            NodesCheck(t) \/ NodesStore(t) \/ NodesTest(t) \/ NodesWrite(t) \/ NodesReturn(t)

SpecNodesMT == InitT /\ [][NextT]_vars

----------------------------------------------------------------------------
(* C11 (as claimed): when several threads call stress_numa_nodes before    *)
(* the cache is filled, every call returns what a lone sequential call     *)
(* returns, and never a value below 1.                                     *)
SequentialAnswer ==
    LET n == ToInt(stress_numa_count_mem_nodes(status, 0).ret) IN
    IF n < 1 THEN 1 ELSE n

C11_BenignRace ==
    \A t \in Threads :
        tret[t] # -1 => (tret[t] >= 1 /\ tret[t] = SequentialAnswer)

----------------------------------------------------------------------------
(* stress_numa_mask_alloc and stress_numa_randomize_pages *)

MaxPageSize == 2      \* page_size argument
MaxBufferSize == 3    \* buffer_size argument

BITS_PER_BYTE == 8

NULL == [live |-> FALSE]

\* the value the field numa_mask->nodes holds after the assignment of line 106:
\* the field is a signed count, -1 on discovery failure
NodesField(v) == ToInt(v)

\* mutant: only max_nodes is tested
MaskRejected_MaxOnly(n, mx) == mx < 1

\* line 107: "(numa_mask->nodes < 1) || (numa_mask->max_nodes < 1)"
MaskRejected(n, mx) == n < 1 \/ mx < 1

\* mutant: the number of longs is not rounded up
NumaElements_Truncated(mx) ==
    LET e == mx \div NUMA_LONG_BITS IN IF e # 0 THEN e ELSE 1

\* lines 113-114: number of longs based on the maximum number of nodes
NumaElements(mx) ==
    LET e == (mx + NUMA_LONG_BITS - 1) \div NUMA_LONG_BITS IN IF e # 0 THEN e ELSE 1

\* the mask stress_numa_mask_alloc builds when no allocation fails, or NULL
stress_numa_mask_alloc(st, prev) ==
    LET r == stress_numa_count_mem_nodes(st, prev)
        n == NodesField(r.ret)
        elements == NumaElements(r.max_node)
    IN  IF MaskRejected(n, r.max_node) THEN NULL
        ELSE [live |-> TRUE, nodes |-> n, max_nodes |-> r.max_node,
              numa_elements |-> elements,
              mask_size |-> (NUMA_LONG_BITS * elements) \div BITS_PER_BYTE,
              mask |-> {}]

\* blocks outstanding when stress_numa_mask_alloc returns; failed names the
\* allocation that fails: "struct" (malloc), "mask" (calloc) or "none"
HeapAfterAlloc(h, m, failed) ==
    IF failed = "struct" THEN h                  \* lines 102-104
    ELSE IF ~m.live THEN (h + 1) - 1             \* lines 107-110: free(numa_mask)
    ELSE IF failed = "mask" THEN (h + 1) - 1     \* lines 120-123: free(numa_mask)
    ELSE h + 2

\* mutant: the bit buffer is not freed
HeapAfterFree_StructOnly(h, m) == IF ~m.live THEN h ELSE h - 1

\* stress_numa_mask_free: blocks outstanding afterwards
HeapAfterFree(h, m) == IF ~m.live THEN h ELSE (h - 1) - 1

\* mutant: the buffer is not cleared
Memset0_Skipped(mask) == mask

\* shim_memset(numa_mask->mask, 0, numa_mask->mask_size)
Memset0(mask) == {}

\* line 181: "ptr < ptr_end"
MorePages(p, end) == p < end

\* values stress_mwc32modn(max) may return
stress_mwc32modn(max) == IF max = 0 THEN {0} ELSE 0..(max - 1)

\* mutant: the bit is left set after the call
ClrBit_Forgotten(mask, b) == mask

\* STRESS_CLRBIT(numa_mask->mask, node)
ClrBit(mask, b) == mask \ {b}

\* bits a caller may have left set in the mask
EntryMasks(m) == { {}, {0}, {0, m.max_nodes - 1}, {m.mask_size * BITS_PER_BYTE - 1} }

Rep(c, n) == [k \in 1..n |-> c]

\* one node allowed out of 68 node slots: a mask of two longs
WideFile == FileWith(<<"\t", "1">> \o Rep("0", 16))

RandFiles == { NoOpen, FileWith(<<"\t", "0">>), FileWith(<<"\t", "1">>),
               FileWith(<<"\t", "f">>), FileWith(<<"\t", "0", "3">>), WideFile }

MaskAlloc ==
    /\ pc = "alloc"
    /\ \E failed \in {"none", "struct", "mask"} :
          LET m == stress_numa_mask_alloc(status, 0) IN
          /\ numa_mask' = IF failed = "none" THEN m ELSE NULL
          /\ heap' = HeapAfterAlloc(heap, m, failed)
    /\ pc' = IF numa_mask'.live THEN "rand" ELSE "done"
    /\ UNCHANGED <<status, cvars, mvars, nvars, ptr, page_size, buffer_size, entry_mask,
                   mbinds, released>>

\* stress_numa_mask_free(numa_mask), the caller then forgets the pointer
MaskFree ==
    /\ pc \in {"rand", "done"}
    /\ heap' = HeapAfterFree(heap, numa_mask)
    /\ released' = heap - heap'
    /\ numa_mask' = NULL
    /\ pc' = "freed"
    /\ UNCHANGED <<status, cvars, mvars, nvars, ptr, page_size, buffer_size, entry_mask, mbinds>>

\* calls kept in the record of one run: one more than any buffer needs with
\* a stride of at least 1; beyond that the oldest call is forgotten
MaxBindCalls == MaxBufferSize + 1

Recorded(calls) == IF Len(calls) > MaxBindCalls THEN Tail(calls) ELSE calls

\* lines 172-181: entry, the memset and the start of the loop
RandEnter ==
    /\ pc = "rand"
    /\ \E ps \in 0..MaxPageSize, bs \in 0..MaxBufferSize, bits \in EntryMasks(numa_mask) :
          /\ page_size' = ps
          /\ buffer_size' = bs
          /\ entry_mask' = bits
          /\ numa_mask' = [numa_mask EXCEPT !.mask = Memset0(bits)]
    /\ ptr' = 0
    /\ pc' = "rand_loop"
    /\ UNCHANGED <<status, cvars, mvars, nvars, mbinds, heap, released>>

\* lines 181-188: one page
RandPage ==
    /\ pc = "rand_loop"
    /\ MorePages(ptr, buffer_size)
    /\ \E node \in stress_mwc32modn(numa_mask.nodes), ok \in BOOLEAN :
          LET bound == SetBit(numa_mask.mask, node) IN
          /\ mbinds' = Recorded(Append(mbinds, [addr |-> ptr, len |-> page_size,
                                                mask |-> bound,
                                                maxnode |-> numa_mask.max_nodes,
                                                ok |-> ok]))
          /\ numa_mask' = [numa_mask EXCEPT !.mask = ClrBit(bound, node)]
    /\ ptr' = ptr + page_size
    /\ UNCHANGED <<status, pc, cvars, mvars, nvars, page_size, buffer_size, entry_mask,
                   heap, released>>

\* line 181: the loop ends and the function returns
RandReturn ==
    /\ pc = "rand_loop"
    /\ ~MorePages(ptr, buffer_size)
    /\ pc' = "rand_done"
    /\ UNCHANGED <<status, cvars, mvars, nvars, rvars>>

InitR == /\ status \in RandFiles
         /\ pc = "alloc"
         /\ max_node = 0 /\ count_ret = 0 /\ count_calls = 0
         /\ InitMbind /\ InitNodes /\ InitRand

NextR == MaskAlloc \/ RandEnter \/ RandPage \/ RandReturn

SpecRand == InitR /\ [][NextR]_vars

\* a loop that can take its next step takes it
SpecRandFair == SpecRand /\ WF_vars(RandPage) /\ WF_vars(RandReturn)

----------------------------------------------------------------------------
(* a caller that allocates and frees masks in a loop *)

LongDigits == {15, 16, 17, 32, 33}

\* all nodes allowed, 60 to 132 node slots
LongFiles == {FileWith(<<"\t">> \o Rep("f", n)) : n \in LongDigits}

\* an undecodable character met after one digit was scanned
BadAfterDigit == FileWith(<<"\t", "x", "3">>)

MaskFiles == NodesFiles \cup LongFiles \cup {WideFile, BadAfterDigit}

\* the caller comes back for another mask; the status file may have changed
MaskAgain ==
    /\ pc = "freed"
    /\ status' \in MaskFiles
    /\ pc' = "alloc"
    /\ UNCHANGED <<cvars, mvars, nvars, rvars>>

InitK == /\ status \in MaskFiles
         /\ pc = "alloc"
         /\ max_node = 0 /\ count_ret = 0 /\ count_calls = 0
         /\ InitMbind /\ InitNodes /\ InitRand

NextK == MaskAlloc \/ MaskFree \/ MaskAgain

SpecMask == InitK /\ [][NextK]_vars

----------------------------------------------------------------------------
(* C12: every mask returned by stress_numa_mask_alloc has                  *)
(* numa_elements = max(1, ceil(max_nodes / NUMA_LONG_BITS)),               *)
(* mask_size = numa_elements * NUMA_LONG_BITS / 8, mask_size * 8 >=        *)
(* max_nodes, and an all-zero bit buffer.                                  *)
C12_State == pc \in {"rand", "done"} /\ numa_mask.live

C12_MaskShape ==
    C12_State =>
        LET e == numa_mask.numa_elements
            mx == numa_mask.max_nodes
        IN  /\ e >= 1
            /\ e * NUMA_LONG_BITS >= mx
            /\ (e > 1 => (e - 1) * NUMA_LONG_BITS < mx)
            /\ numa_mask.mask_size * 8 = e * NUMA_LONG_BITS
            /\ numa_mask.mask_size * 8 >= mx
            /\ numa_mask.mask = {}

\* 17 digits: 68 node slots need two longs, 16 bytes
C12_Witness ==
    /\ C12_State
    /\ numa_mask.max_nodes = 68
    /\ numa_mask.numa_elements = 2
    /\ numa_mask.mask_size = 16

----------------------------------------------------------------------------
(* C13: stress_numa_mask_alloc returns NULL whenever node discovery fails  *)
(* (file not opened, no labelled line, undecodable digit even after some   *)
(* digits were scanned) or yields a node count below 1 or a max_node below *)
(* 1; every mask it returns has nodes >= 1 and max_nodes >= 1.             *)
C13_Failing ==
    {NoOpen, EmptyFile, NoLabelFile, BadAfterDigit,
     FileWith(<<"\t", "x">>), FileWith(<<"\t">>), FileWith(<<"\t", "0">>)}

C13_NullOnFailure ==
    /\ C13_Failing \subseteq MaskFiles
    /\ (pc \in {"rand", "done"} /\ status \in C13_Failing) => numa_mask = NULL
    /\ numa_mask.live => (numa_mask.nodes >= 1 /\ numa_mask.max_nodes >= 1)

C13_Witness ==
    /\ pc = "done"
    /\ status = BadAfterDigit
    /\ stress_numa_count_mem_nodes(status, 0) = [ret |-> ULONG_MAX, max_node |-> 4]
    /\ numa_mask = NULL

----------------------------------------------------------------------------
(* C14: mask allocations never leak and no partial object is returned: a   *)
(* failing stress_numa_mask_alloc returns NULL with nothing left           *)
(* allocated, stress_numa_mask_free(NULL) does nothing, and                *)
(* stress_numa_mask_free on a live mask releases both blocks, so nothing   *)
(* is outstanding once every returned mask has been freed.                 *)
C14_NoLeak ==
    /\ heap = (IF numa_mask.live THEN 2 ELSE 0)
    /\ pc = "freed" => (heap = 0 /\ released \in {0, 2})

\* a second round of the caller's loop, after a live mask was freed
C14_Witness ==
    /\ pc = "done"
    /\ released = 2
    /\ heap = 0
    /\ numa_mask = NULL

----------------------------------------------------------------------------
(* the build without kernel support: lines 301-328 replace                 *)
(* stress_numa_randomize_pages, stress_numa_nodes and stress_set_mbind     *)

NotSupported == "setting NUMA memory policy binding not supported"

\* single tokens and the documented example
FallbackArgs == {Join(<<t>>) : t \in Tokens} \cup {Str_0_2to4_7}

\* lines 302-314: the mask is cleared, nothing else is done
FallbackRandomize ==
    /\ pc = "rand"
    /\ result = "none"
    /\ \E ps \in 1..MaxPageSize, bs \in 0..MaxBufferSize, bits \in EntryMasks(numa_mask) :
          /\ page_size' = ps
          /\ buffer_size' = bs
          /\ entry_mask' = bits
          /\ numa_mask' = [numa_mask EXCEPT !.mask = Memset0(bits)]
    /\ pc' = "rand_done"
    /\ UNCHANGED <<status, cvars, mvars, nvars, ptr, mbinds, heap, released>>

\* lines 316-319
FallbackNodes ==
    /\ result = "none"
    /\ Len(nodes_ret) < MaxNodesCalls
    /\ nodes_ret' = Append(nodes_ret, 1)
    /\ UNCHANGED <<status, pc, cvars, mvars, rvars, nodes, tpc, tret>>

\* lines 321-327
FallbackSetMbind ==
    /\ result = "none"
    /\ Exit(NotSupported)
    /\ UNCHANGED <<status, cvars, arg, strtok_pos, token, lo, hi, i, nodemask, nodemask_sz,
                   policy, nvars, rvars>>

InitF == /\ status \in RandFiles \cup Undiscoverable
         /\ pc = "alloc"
         /\ max_node = 0 /\ count_ret = 0 /\ count_calls = 0
         /\ InitNodes /\ InitRand
         /\ arg \in FallbackArgs
         /\ strtok_pos = 0
         /\ token = <<>>
         /\ lo = 0 /\ hi = 0 /\ i = 0
         /\ nodemask = {}
         /\ nodemask_sz = 0
         /\ policy = <<>>
         /\ diag = ""
         /\ result = "none"

NextF == MaskAlloc \/ FallbackRandomize \/ FallbackNodes \/ FallbackSetMbind

SpecFallback == InitF /\ [][NextF]_vars

----------------------------------------------------------------------------
(* C15: in the build without kernel support stress_set_mbind reports "not  *)
(* supported" and exits with failure for every argument, also when no NUMA *)
(* node is discoverable, and never returns; stress_numa_randomize_pages    *)
(* issues no bind call and leaves the mask all zero; stress_numa_nodes     *)
(* returns 1.                                                              *)
C15_Fallback ==
    /\ result \in {"none", "exit_failure"}
    /\ result = "exit_failure" => (diag = NotSupported /\ policy = <<>>)
    /\ result = "none" => diag = ""
    /\ count_calls = 0
    /\ mbinds = <<>>
    /\ (numa_mask.live /\ page_size # 0) => numa_mask.mask = {}
    /\ \A k \in 1..Len(nodes_ret) : nodes_ret[k] = 1

C15_Witness ==
    /\ status \in Undiscoverable
    /\ result = "exit_failure"
    /\ diag = NotSupported
    /\ nodes_ret = <<1>>

----------------------------------------------------------------------------
(* C16 (as claimed): within one stress_set_mbind invocation that accepts   *)
(* its argument, tokens that repeat or overlap included, the node set of   *)
(* each set_mempolicy call is a strict superset of the node set of the     *)
(* call before it.                                                         *)
PolicyNodes(k) == policy[k].nodes

C16_StrictlyGrowing ==
    result = "ret0" =>
        \A k \in 2..Len(policy) :
            PolicyNodes(k - 1) \subseteq PolicyNodes(k) /\ PolicyNodes(k - 1) # PolicyNodes(k)

(* C16 (amended): the node set of each call is the node set of the call    *)
(* before it with one index added, so it is a superset with at most one    *)
(* more element; it is a strict superset exactly when the index of the     *)
(* call was not traversed before, and equal for a repeated index.          *)
C16_Growing ==
    /\ \A k \in 1..Len(policy) :
          LET prev == IF k = 1 THEN {} ELSE PolicyNodes(k - 1) IN
          /\ prev \subseteq PolicyNodes(k)
          /\ \E b \in PolicyNodes(k) : PolicyNodes(k) = prev \cup {b}
    /\ (Discovered /\ ValidTokens(Pieces(arg), max_node)) =>
          LET idx == Traversal(Pieces(arg)) IN
          \A k \in 2..Len(policy) :
              (PolicyNodes(k) # PolicyNodes(k - 1)) <=> (idx[k] \notin FirstK(idx, k - 1))

\* "3,3": the second call repeats the set of the first
C16_Witness ==
    /\ arg = <<"3", ",", "3">>
    /\ result = "ret0"
    /\ [k \in 1..Len(policy) |-> PolicyNodes(k)] = <<{3}, {3}>>

----------------------------------------------------------------------------
(* the two binders over one state space: a run is either one               *)
(* stress_set_mbind invocation or one allocation followed by one           *)
(* stress_numa_randomize_pages call                                        *)

InitB == InitM \/ InitR

NextB == NextM \/ NextR

SpecBinders == InitB /\ [][NextB]_vars

----------------------------------------------------------------------------
(* C17: in every reachable state every bit set in a node mask has an index *)
(* below max_node and inside the allocated words: in the working mask of   *)
(* stress_set_mbind and the masks it passes to set_mempolicy, and in the   *)
(* mask of stress_numa_randomize_pages and the masks it passes to mbind,   *)
(* where the node count never exceeds max_nodes.                           *)
MaskBitsInside(bits, mx, words) ==
    \A b \in bits : b >= 0 /\ b < mx /\ b < words * NUMA_LONG_BITS

C17_BitsInRange ==
    /\ MaskBitsInside(nodemask, max_node, nodemask_sz)
    /\ \A k \in 1..Len(policy) :
          /\ MaskBitsInside(policy[k].nodes, max_node, nodemask_sz)
          /\ policy[k].maxnode = max_node
    /\ numa_mask.live =>
          /\ numa_mask.nodes <= numa_mask.max_nodes
          /\ numa_mask.mask_size * BITS_PER_BYTE = numa_mask.numa_elements * NUMA_LONG_BITS
          /\ MaskBitsInside(numa_mask.mask, numa_mask.max_nodes, numa_mask.numa_elements)
          /\ \A k \in 1..Len(mbinds) :
                /\ MaskBitsInside(mbinds[k].mask, numa_mask.max_nodes, numa_mask.numa_elements)
                /\ mbinds[k].maxnode = numa_mask.max_nodes

\* "7" with eight node slots: the highest index allowed is set
C17_Witness ==
    /\ arg = <<"7">>
    /\ max_node = 8
    /\ nodemask_sz = 1
    /\ nodemask = {7}
    /\ result = "ret0"

----------------------------------------------------------------------------
(* C2: over a buffer of exactly N pages the randomizer issues N mbind      *)
(* calls, page after page in ascending address order; the mask of each     *)
(* call has exactly one bit, whose index is below the node count; the mask *)
(* is all zero after return whatever it held on entry.                     *)
C2_OnePerPage ==
    (pc \in {"rand_loop", "rand_done"} /\ page_size >= 1 /\ buffer_size % page_size = 0) =>
        /\ \A k \in 1..Len(mbinds) :
              /\ mbinds[k].addr = (k - 1) * page_size
              /\ mbinds[k].len = page_size
              /\ Cardinality(mbinds[k].mask) = 1
              /\ \A b \in mbinds[k].mask : b >= 0 /\ b < numa_mask.nodes
        /\ Len(mbinds) * page_size = ptr
        /\ ptr <= buffer_size
        /\ pc = "rand_done" =>
              /\ Len(mbinds) = buffer_size \div page_size
              /\ numa_mask.mask = {}

C2_Witness ==
    /\ pc = "rand_done"
    /\ page_size = 1 /\ buffer_size = 3
    /\ Len(mbinds) = 3
    /\ mbinds[1].mask # mbinds[2].mask
    /\ entry_mask = {0, 3}
    /\ numa_mask.mask = {}

----------------------------------------------------------------------------
(* C8: for a Mems_allowed line in the kernel's format (label, one white    *)
(* space, hex digits grouped by commas, newline) max_node is 4 times the   *)
(* number of hex digits, the most significant one included, and the value  *)
(* returned is the number of 1 bits of those digits.                       *)
BitsOf == [c \in {"0","1","2","3","4","5","6","7","8","9","a","b","c","d","e","f"} |->
             CASE c \in {"0"} -> 0
               [] c \in {"1","2","4","8"} -> 1
               [] c \in {"3","5","6","9","a","c"} -> 2
               [] c \in {"7","b","d","e"} -> 3
               [] c \in {"f"} -> 4]

MemsBody == LET l == status.lines[2] IN SubSeq(l, LabelLen + 1, Len(l) - 1)

KernelFormat ==
    /\ status.open
    /\ Len(status.lines) = 3
    /\ MemsBody # <<>>
    /\ MemsBody[1] \in {"\t", " "}
    /\ \A k \in 2..Len(MemsBody) : MemsBody[k] \in DOMAIN BitsOf \cup {","}

RECURSIVE SumBits(_)
SumBits(m) == IF m = <<>> THEN 0
              ELSE (IF m[1] = "," THEN 0 ELSE BitsOf[m[1]]) + SumBits(Tail(m))

C8_CountsEveryDigit ==
    (pc = "counted" /\ KernelFormat) =>
        LET mask == Tail(MemsBody) IN
        /\ max_node = 4 * Cardinality({k \in 1..Len(mask) : mask[k] # ","})
        /\ count_ret = SumBits(mask)

C8_Witness ==
    /\ pc = "counted"
    /\ status = FileWith(<<"\t", "f", ",", "3">>)
    /\ max_node = 8
    /\ count_ret = 6

----------------------------------------------------------------------------
(* C9: when the status file cannot be opened or holds no Mems_allowed      *)
(* line, the Node Counter returns -1 (as an unsigned long) and leaves 0 in *)
(* max_node, whatever max_node held before.                                *)
C9_FailureResult ==
    (pc = "counted" /\ status \in {NoOpen, EmptyFile, NoLabelFile}) =>
        /\ count_ret = ULONG_MAX
        /\ ToInt(count_ret) = -1
        /\ max_node = 0

C9_Witness ==
    /\ pc = "counted"
    /\ status = NoLabelFile
    /\ count_calls = 1
    /\ max_node = 0

----------------------------------------------------------------------------
(* C10: single-threaded, every call of stress_numa_nodes returns a value   *)
(* >= 1, 1 when discovery fails or finds no node; only the first call      *)
(* invokes the Node Counter; later calls return the first call's value     *)
(* even after the status file has changed.                                 *)
C10_State ==
    /\ \A k \in 1..Len(nodes_ret) : nodes_ret[k] >= 1 /\ nodes_ret[k] = nodes_ret[1]
    /\ count_calls = IF nodes_ret = <<>> THEN 0 ELSE 1

C10_First ==
    (nodes_ret = <<>> /\ nodes_ret' # <<>> /\ status \in Undiscoverable \cup {EmptyFile})
        => nodes_ret' = <<1>>

C10_CachedAtLeastOne == [](C10_State) /\ [][C10_First]_vars

C10_Witness ==
    /\ nodes_ret = <<1, 1, 1>>
    /\ count_calls = 1
    /\ status = FileWith(<<"\t", "f">>)

----------------------------------------------------------------------------
(* C18 (as claimed): stress_numa_randomize_pages terminates for every      *)
(* page_size and buffer_size the caller may pass; with page_size >= 1 it   *)
(* returns after exactly ceil(buffer_size / page_size) bind calls, each of *)
(* full page_size length, one per stride in ascending order whether or not *)
(* earlier calls failed.                                                   *)
C18_Strides ==
    (pc \in {"rand_loop", "rand_done"} /\ page_size >= 1) =>
        /\ \A k \in 1..Len(mbinds) :
              /\ mbinds[k].addr = (k - 1) * page_size
              /\ mbinds[k].len = page_size
              /\ mbinds[k].addr < buffer_size
        /\ ptr = Len(mbinds) * page_size
        /\ pc = "rand_done" =>
              Len(mbinds) = (buffer_size + page_size - 1) \div page_size

C18_PositiveStride ==
    [](C18_Strides) /\ ((pc = "rand_loop" /\ page_size >= 1) ~> (pc = "rand_done"))

\* what holds: with a stride of 0 over a non-empty buffer the loop never
\* advances and never ends
C18_ZeroStride ==
    (pc \in {"rand_loop", "rand_done"} /\ page_size = 0 /\ buffer_size >= 1) =>
        /\ pc = "rand_loop"
        /\ ptr = 0
        /\ \A k \in 1..Len(mbinds) : mbinds[k].addr = 0 /\ mbinds[k].len = 0

============================================================================
